---- MODULE Spec2Model ----
(***************************************************************************)
(* A model of setplotlib.py: the two operations set_plot and tight_text    *)
(* acting on figures owned by the plotting library.                        *)
(*                                                                         *)
(* Numbers.  The program computes in binary floating point (Python float). *)
(* A float is modelled as a record [m, e] standing for m * 2^e, with       *)
(* either m = 0 or 2^(Prec-1) <= |m| < 2^Prec.  Every arithmetic operation *)
(* rounds its exact result to the nearest such number, ties to even, as    *)
(* IEEE 754 does.  Prec is the number of significand bits kept by the      *)
(* model; the exponent is unbounded (no overflow or underflow occurs for   *)
(* the magnitudes a figure has).                                           *)
(***************************************************************************)
EXTENDS Integers, Sequences, FiniteSets, TLC

\* Significand bits of the modelled floating-point format.
Prec == 4
\* Operations performed in one behaviour.
MaxCalls == 2
\* Plot areas of the figure under study.
MaxAxes == 2
\* Text elements of the figure under study.
MaxTexts == 2

RECURSIVE Pow2(_)
Pow2(n) == IF n <= 0 THEN 1 ELSE 2 * Pow2(n - 1)

Abs(n) == IF n < 0 THEN -n ELSE n
Sgn(n) == IF n < 0 THEN -1 ELSE IF n = 0 THEN 0 ELSE 1

Zero == [m |-> 0, e |-> 0]

\* Significands of non-zero floats run from SigMin to SigMax - 1.
SigMin == Pow2(Prec - 1)
SigMax == Pow2(Prec)

\* The float nearest to (n / d) * 2^e for integers n, d > 0 (ties to even).
RECURSIVE RoundPos(_, _, _)
RoundPos(n, d, e) ==
    IF n < d * SigMin THEN RoundPos(2 * n, d, e - 1)
    ELSE IF n >= d * SigMax THEN RoundPos(n, 2 * d, e + 1)
    ELSE LET q  == n \div d
             r  == n % d
             up == (2 * r > d) \/ (2 * r = d /\ q % 2 = 1)
             q1 == IF up THEN q + 1 ELSE q
         IN  IF q1 = SigMax THEN [m |-> SigMin, e |-> e + 1]
                            ELSE [m |-> q1, e |-> e]

\* The float nearest to s * (n / d) * 2^e, s the sign and n >= 0, d > 0.
Round(s, n, d, e) ==
    IF n = 0 \/ s = 0 THEN Zero
    ELSE LET r == RoundPos(n, d, e) IN [m |-> s * r.m, e |-> r.e]

\* A decimal literal n/d of the source, as the float the interpreter reads.
Lit(n, d) == Round(Sgn(n), Abs(n), d, 0)

Neg(a) == [m |-> -a.m, e |-> a.e]

\* a + b, rounded.  An operand below a quarter of the other's last place
\* cannot change the rounded result.
Add(a, b) ==
    IF a.m = 0 THEN b
    ELSE IF b.m = 0 THEN a
    ELSE IF a.e - b.e >= Prec + 2 THEN a
    ELSE IF b.e - a.e >= Prec + 2 THEN b
    ELSE LET e0 == IF a.e < b.e THEN a.e ELSE b.e
             n  == a.m * Pow2(a.e - e0) + b.m * Pow2(b.e - e0)
         IN  Round(Sgn(n), Abs(n), 1, e0)

Sub(a, b) == Add(a, Neg(b))

Mul(a, b) == Round(Sgn(a.m) * Sgn(b.m), Abs(a.m) * Abs(b.m), 1, a.e + b.e)

\* a / b for b # 0.
Div(a, b) == Round(Sgn(a.m) * Sgn(b.m), Abs(a.m), Abs(b.m), a.e - b.e)

Less(a, b) == Sub(a, b).m < 0
FMin(a, b) == IF Less(b, a) THEN b ELSE a
FMax(a, b) == IF Less(a, b) THEN b ELSE a

One == Lit(1, 1)

\* The number of floats between two positive floats: their distance in units
\* in the last place.
UlpIndex(a) == a.e * SigMin + (a.m - SigMin)
UlpDist(a, b) == Abs(UlpIndex(a) - UlpIndex(b))

(***************************************************************************)
(* The objects of the plotting library the program reads and writes.       *)
(***************************************************************************)

\* Figure numbers known to pyplot.
FigIds == {1, 2}

Family0 == "sans-serif"
TimesNewRoman == "Times New Roman"

Bbox(x0, y0, x1, y1) == [xmin |-> x0, ymin |-> y0, xmax |-> x1, ymax |-> y1]

\* A text element: its string, font, whether a renderer has drawn it
\* (h._renderer is not None) and the extent get_window_extent() reports (pixels).
Text(s, r, x0, y0, x1, y1) ==
    [text |-> s, size |-> 12, family |-> Family0, rendered |-> r,
     bb |-> Bbox(Lit(x0, 1), Lit(y0, 1), Lit(x1, 1), Lit(y1, 1))]

\* The kinds of text element a figure is populated with: an empty title, an axis
\* label, a block of tick labels, a label no renderer has drawn yet, and a note
\* placed beyond the right and top edges of the canvas.
TextKinds ==
    << Text("", TRUE, 1, 1, 2000, 2000),
       Text("ylabel", TRUE, 10, 200, 30, 280),
       Text("0.5", TRUE, 40, 20, 600, 460),
       Text("note", FALSE, 4, 4, 700, 500),
       Text("off", TRUE, 2000, 2000, 2100, 2100) >>

\* Text populations: up to MaxTexts of the kinds, by their indices.
TextConfigs == {S \in SUBSET (1..Len(TextKinds)) : Cardinality(S) <= MaxTexts}

\* The text elements of a population, in the order findobj lists them.
RECURSIVE TextsOf(_)
TextsOf(S) ==
    IF S = {} THEN <<>>
    ELSE LET i == CHOOSE k \in S : \A j \in S : k <= j
         IN  <<TextKinds[i]>> \o TextsOf(S \ {i})

Spine0 == [color |-> "k", lw |-> One]

\* Plot area i of n as the library first lays it out (stacked rows).
Axes0(i, n) ==
    [position |-> Bbox(Lit(125, 1000), Lit(i - 1, n), Lit(9, 10), Lit(10 * i - 1, 10 * n)),
     spines   |-> [left |-> Spine0, right |-> Spine0, top |-> Spine0, bottom |-> Spine0],
     xticklines |-> [marker |-> <<3, 2>>, markersize |-> 4],
     yticklines |-> [marker |-> <<0, 1>>, markersize |-> 4],
     xticks |-> "both", yticks |-> "both"]

Figure0(w, h, d, n, cfg) ==
    [width |-> w, height |-> h, dpi |-> d,
     axes |-> [i \in 1..n |-> Axes0(i, n)],
     text |-> TextsOf(cfg)]

\* Sizes and resolutions of the figure under study.
Widths == {Lit(5, 1), Lit(64, 10), Lit(13, 4)}
Heights == {Lit(4, 1), Lit(48, 10)}
Dpis == {Lit(100, 1), Lit(72, 1)}


\* A figure pyplot.figure(n) creates when no figure has number n: no plot area,
\* no text.
NewFigure == Figure0(Lit(8, 1), Lit(6, 1), Lit(80, 1), 0, {})

(***************************************************************************)
(* The argument h_f.  tag names its type; n is the number of an integer    *)
(* argument, fig the figure that owns an axes or artist argument (or is    *)
(* the figure argument itself), elems the elements of a list argument,     *)
(* each an artist of figure fig that has get_axes or an object without it. *)
(***************************************************************************)
Arg(t, n, f, l) == [tag |-> t, n |-> n, fig |-> f, elems |-> l]

\* The lists handed in: empty, one element, two elements.
ListShapes == {<<>>, <<"artist">>, <<"other">>, <<"artist", "artist">>}

\* The arguments a caller can form in a state with figures figs: every kind the
\* dispatch of lines 38-63 tells apart.
Args(figs) ==
    LET drawn == {f \in DOMAIN figs : Len(figs[f].axes) > 0}
    IN  {Arg("none", 0, 0, <<>>), Arg("other", 0, 0, <<>>)}
        \cup {Arg("int", n, 0, <<>>) : n \in FigIds}
        \cup {Arg("figure", 0, f, <<>>) : f \in DOMAIN figs}
        \cup {Arg(t, 0, f, <<>>) : t \in {"axes", "artist"}, f \in drawn}
        \cup {Arg("list", 0, f, l) : f \in drawn,
                l \in {sh \in ListShapes : \E k \in DOMAIN sh : sh[k] = "artist"}}
        \cup {Arg("list", 0, 0, l) :
                l \in {sh \in ListShapes : \A k \in DOMAIN sh : sh[k] # "artist"}}

VARIABLES
    figures,      \* pyplot's figures: figure number -> figure
    active,       \* the number gcf() answers, 0 when there is none
    interactive,  \* matplotlib.pyplot.isinteractive()
    last,         \* the last call: operation, argument, outcome, figure, ...
    calls         \* calls made so far

vars == <<figures, active, interactive, last, calls>>

\* Lines 37-63 and 159-185: the figure an argument stands for.  err is the
\* exception raised ("" when none), fig the figure number, figs and act the
\* library's figures and current figure afterwards.
Resolve(arg, figs, act) ==
    LET fail(x) == [err |-> x, fig |-> 0, figs |-> figs, act |-> act]
        ok(f)   == [err |-> "", fig |-> f, figs |-> figs, act |-> act]
    IN  IF arg.tag = "none" THEN
            (IF act = 0 THEN fail("ValueError") ELSE ok(act))
        ELSE IF arg.tag = "int" THEN
            [err |-> "", fig |-> arg.n,
             figs |-> IF arg.n \in DOMAIN figs THEN figs
                      ELSE [f \in DOMAIN figs \cup {arg.n} |->
                              IF f = arg.n THEN NewFigure ELSE figs[f]],
             act |-> arg.n]
        ELSE IF arg.tag = "figure" THEN ok(arg.fig)
        ELSE IF arg.tag = "axes" THEN ok(arg.fig)
        ELSE IF arg.tag = "artist" THEN ok(arg.fig)
        ELSE IF arg.tag = "list" THEN
            (IF Len(arg.elems) = 0 THEN fail("IndexError")
             ELSE IF arg.elems[1] = "artist" THEN ok(arg.fig)
             ELSE fail("ValueError"))
        ELSE fail("ValueError")

\* Line 82: the desired width of the figure, 3.25 in.
DesiredWidth == Lit(325, 100)

\* Resize with the aspect ratio taken as width over height.
ResizeInvertedRatio(f) ==
    [f EXCEPT !.width = DesiredWidth,
              !.height = Mul(DesiredWidth, Div(f.width, f.height)),
              !.dpi = Mul(Div(f.width, DesiredWidth), f.dpi)]

\* Resize with the DPI scaled by the new width over the old.
ResizeDpiInverse(f) ==
    [f EXCEPT !.width = DesiredWidth,
              !.height = Mul(DesiredWidth, Div(f.height, f.width)),
              !.dpi = Mul(Div(DesiredWidth, f.width), f.dpi)]

\* Resize with the DPI scaled by the old width, not divided by the new.
ResizeDpiUnscaled(f) ==
    [f EXCEPT !.width = DesiredWidth,
              !.height = Mul(DesiredWidth, Div(f.height, f.width)),
              !.dpi = Mul(f.width, f.dpi)]

\* Lines 72-93: width to 3.25, height by the old aspect ratio, DPI by the old
\* width over the new.
Resize(f) ==
    LET L_x_i   == f.width
        L_y_i   == f.height
        AR_f_i  == Div(L_y_i, L_x_i)
        dpi_f_i == f.dpi
        L_x     == DesiredWidth
        AR_f    == AR_f_i
        L_y     == Mul(L_x, AR_f)
        dpi_f   == Mul(Div(L_x_i, L_x), dpi_f_i)
    IN  [f EXCEPT !.width = L_x, !.height = L_y, !.dpi = dpi_f]

\* SetText without the family.
SetTextSizeOnly(h) == [h EXCEPT !.size = 9]

\* Lines 95-102: every text element to size 9, Times New Roman.
SetText(h) == [h EXCEPT !.size = 9, !.family = TimesNewRoman]

SetFonts(f) == [f EXCEPT !.text = [i \in DOMAIN f.text |-> SetText(f.text[i])]]

\* Lines 120-121: the line width of the spines that stay, 0.8.
SpineWidth == Lit(8, 10)

\* StyleAxes that hides the right spine only.
StyleAxesKeepTop(h) ==
    [h EXCEPT !.xticklines = [marker |-> [k \in DOMAIN h.xticklines.marker |-> 3],
                              markersize |-> 2],
              !.yticklines = [marker |-> [k \in DOMAIN h.yticklines.marker |-> 0],
                              markersize |-> 2],
              !.spines.right.color = "none",
              !.spines.left.lw = SpineWidth,
              !.spines.bottom.lw = SpineWidth,
              !.xticks = "bottom",
              !.yticks = "left"]

\* Lines 105-124: ticks, spines and tick positions of one plot area.
StyleAxes(h) ==
    [h EXCEPT !.xticklines = [marker |-> [k \in DOMAIN h.xticklines.marker |-> 3],
                              markersize |-> 2],
              !.yticklines = [marker |-> [k \in DOMAIN h.yticklines.marker |-> 0],
                              markersize |-> 2],
              !.spines.right.color = "none",
              !.spines.top.color = "none",
              !.spines.left.lw = SpineWidth,
              !.spines.bottom.lw = SpineWidth,
              !.xticks = "bottom",
              !.yticks = "left"]

StyleAllAxes(f) == [f EXCEPT !.axes = [i \in DOMAIN f.axes |-> StyleAxes(f.axes[i])]]

\* matplotlib.pyplot.draw(): the current figure is rendered, which hands every
\* text element of it a renderer.
Draw(figs, act) ==
    IF act \in DOMAIN figs
    THEN [figs EXCEPT ![act].text =
            [i \in DOMAIN figs[act].text |-> [figs[act].text[i] EXCEPT !.rendered = TRUE]]]
    ELSE figs

\* The layouts h_f.tight_layout(pad=0.2) may settle on (the library decides).
Layouts == {1, 2}

\* Plot area i of n under layout k.
LayoutPosition ==
    [k \in Layouts, n \in 1..MaxAxes, i \in 1..MaxAxes |->
        Bbox(Lit(k, 10), Lit(10 * (i - 1) + k, 10 * n),
             Lit(19, 20), Lit(20 * i - k, 20 * n))]

TightLayout(f, k) ==
    [f EXCEPT !.axes = [i \in DOMAIN f.axes |->
        [f.axes[i] EXCEPT !.position = LayoutPosition[k, Len(f.axes), i]]]]

NoCall == [op |-> "", arg |-> Arg("none", 0, 0, <<>>), outcome |-> "", fig |-> 0,
           pre |-> <<>>, cur |-> 0, isint |-> FALSE, measured |-> {}]

Call(op, arg, outcome, fig, pre, measured) ==
    [op |-> op, arg |-> arg, outcome |-> outcome, fig |-> fig, pre |-> pre,
     cur |-> active, isint |-> interactive, measured |-> measured]

\* set_plot, lines 18-142, once its figure is resolved to r.fig.
SetPlotBody(r, k) ==
    LET new   == StyleAllAxes(SetFonts(Resize(r.figs[r.fig])))
        figs1 == [r.figs EXCEPT ![r.fig] = new]
        figs2 == IF interactive THEN Draw(figs1, r.act) ELSE figs1
    IN  [figs2 EXCEPT ![r.fig] = TightLayout(@, k)]

\* Lines 68-70 and 190-192: the figure has no plot area.
NoAxes(h_f) == Len(h_f.axes) = 0

\* EmptyFigureResult with the emptiness test made after the fonts are set.
EmptyFigureResultLate(r) ==
    [r.figs EXCEPT ![r.fig].text = [i \in DOMAIN @ |-> [@[i] EXCEPT !.size = 9]]]

\* Lines 66-70 and 188-192: the figures when the call ends on an empty figure;
\* nothing has been written to it.
EmptyFigureResult(r) == r.figs

SetPlot(arg) ==
    /\ calls < MaxCalls
    /\ calls' = calls + 1
    /\ UNCHANGED interactive
    /\ \E r \in {Resolve(arg, figures, active)} :
           IF r.err # "" THEN
               /\ last' = Call("set_plot", arg, r.err, 0, <<>>, {})
               /\ UNCHANGED <<figures, active>>
           ELSE IF NoAxes(r.figs[r.fig]) THEN
               /\ last' = Call("set_plot", arg, "ImportError", r.fig, <<r.figs[r.fig]>>, {})
               /\ figures' = EmptyFigureResult(r)
               /\ active' = r.act
           ELSE
               /\ last' = Call("set_plot", arg, "ok", r.fig, <<r.figs[r.fig]>>, {})
               /\ \E k \in Layouts : figures' = SetPlotBody(r, k)
               /\ active' = r.act

\* Line 218: the text elements whose extent is measured.
Measurable(h) == h.rendered /\ h.text # ""

\* Lines 213-225: the running limits over text elements i, i+1, ... of texts,
\* from the limits box.
RECURSIVE ScanText(_, _, _)
ScanText(texts, i, box) ==
    IF i > Len(texts) THEN box
    ELSE IF Measurable(texts[i])
    THEN LET bb == texts[i].bb
         IN  ScanText(texts, i + 1,
                      [x_min |-> FMin(box.x_min, bb.xmin), x_max |-> FMax(box.x_max, bb.xmax),
                       y_min |-> FMin(box.y_min, bb.ymin), y_max |-> FMax(box.y_max, bb.ymax)])
    ELSE ScanText(texts, i + 1, box)

\* Lines 213-214: the limits before any text element is looked at.
SeedBox(L_x, L_y, dpi_f) ==
    [x_min |-> Mul(L_x, dpi_f), x_max |-> Zero, y_min |-> Mul(L_y, dpi_f), y_max |-> Zero]

\* Lines 226-232: the margins between the limits and the plot area's edges.
MeasuredMargins(box, bb_a_i, L_x, L_y, dpi_f) ==
    [l |-> Sub(Mul(bb_a_i.xmin, L_x), Div(box.x_min, dpi_f)),
     r |-> Add(Mul(Neg(bb_a_i.xmax), L_x), Div(box.x_max, dpi_f)),
     b |-> Sub(Mul(bb_a_i.ymin, L_y), Div(box.y_min, dpi_f)),
     t |-> Add(Mul(Neg(bb_a_i.ymax), L_y), Div(box.y_max, dpi_f))]

\* Lines 234-238: the margins guessed without a renderer.
GuessedMargins ==
    [l |-> Lit(3, 10), r |-> Lit(6, 100), b |-> Lit(3, 10), t |-> Lit(8, 100)]

\* Lines 197-200: the clearance added to every margin.
Buffer == Div(Lit(2, 1), Lit(72, 1))

\* Lines 240-247: the plot area's position from the margins.
PositionFor(margin, L_x, L_y) ==
    Bbox(Div(Add(margin.l, Buffer), L_x),
         Div(Add(margin.b, Buffer), L_y),
         Sub(One, Div(Add(margin.r, Buffer), L_x)),
         Sub(One, Div(Add(margin.t, Buffer), L_y)))

\* Margins that measures whether interactive or not.
MarginsAlwaysMeasured(h_f, texts, isint) ==
    MeasuredMargins(ScanText(texts, 1, SeedBox(h_f.width, h_f.height, h_f.dpi)),
                    h_f.axes[1].position, h_f.width, h_f.height, h_f.dpi)

\* Lines 209-238: the margins tight_text settles on for figure h_f, whose text
\* elements are texts once pyplot.draw() has run.
Margins(h_f, texts, isint) ==
    IF isint
    THEN MeasuredMargins(ScanText(texts, 1, SeedBox(h_f.width, h_f.height, h_f.dpi)),
                         h_f.axes[1].position, h_f.width, h_f.height, h_f.dpi)
    ELSE GuessedMargins

\* Line 249: h_a is the first plot area and the only one repositioned.
SetPosition(f, pos) == [f EXCEPT !.axes[1].position = pos]

\* tight_text, lines 194-249, once its figure is resolved to r.fig.
TightTextBody(r) ==
    LET h_f   == r.figs[r.fig]
        figs1 == IF interactive THEN Draw(r.figs, r.act) ELSE r.figs
    IN  [figs1 EXCEPT ![r.fig] =
            SetPosition(@, PositionFor(Margins(h_f, @.text, interactive),
                                       h_f.width, h_f.height))]

\* The text elements get_window_extent() is called on.
MeasuredSet(r) ==
    IF interactive
    THEN LET texts == Draw(r.figs, r.act)[r.fig].text
         IN  {i \in DOMAIN texts : Measurable(texts[i])}
    ELSE {}

\* Line 251 looks up matplotlib.pyplot.drawifinteractive when it is reached: a
\* library that has the name redraws the current figure if interactive, one that
\* does not raises AttributeError; by then the position has been applied.
TightText(arg) ==
    /\ calls < MaxCalls
    /\ calls' = calls + 1
    /\ UNCHANGED interactive
    /\ \E r \in {Resolve(arg, figures, active)} :
           IF r.err # "" THEN
               /\ last' = Call("tight_text", arg, r.err, 0, <<>>, {})
               /\ UNCHANGED <<figures, active>>
           ELSE IF NoAxes(r.figs[r.fig]) THEN
               /\ last' = Call("tight_text", arg, "ImportError", r.fig, <<r.figs[r.fig]>>, {})
               /\ figures' = EmptyFigureResult(r)
               /\ active' = r.act
           ELSE \E done \in {TightTextBody(r)} : \E has \in BOOLEAN :
               /\ last' = Call("tight_text", arg, IF has THEN "ok" ELSE "AttributeError",
                               r.fig, <<r.figs[r.fig]>>, MeasuredSet(r))
               /\ figures' = IF has /\ interactive THEN Draw(done, r.act) ELSE done
               /\ active' = r.act

\* The figures a behaviour starts from: every size with an axis label and tick
\* labels, and every text population at the library's usual size.
Populations ==
    {<<w, h, d, {2, 3}>> : w \in Widths, h \in Heights, d \in Dpis}
    \cup {<<Lit(64, 10), Lit(48, 10), Lit(100, 1), cfg>> : cfg \in TextConfigs}

\* No figure has been drawn, or figure 1 is the current figure with up to MaxAxes
\* plot areas.
Init ==
    /\ interactive \in BOOLEAN
    /\ last = NoCall
    /\ calls = 0
    /\ \/ /\ figures = <<>>
          /\ active = 0
       \/ /\ \E p \in Populations, n \in 0..MaxAxes :
                 figures = <<Figure0(p[1], p[2], p[3], n, p[4])>>
          /\ active = 1

Next ==
    \/ \E arg \in Args(figures) : SetPlot(arg)
    \/ \E arg \in Args(figures) : TightText(arg)

Spec == Init /\ [][Next]_vars

(***************************************************************************)
(* Properties.  last.pre[1] is the figure as the call found it, once       *)
(* resolved; figures[last.fig] is the figure as the call left it.          *)
(***************************************************************************)
Before == last.pre[1]
After == figures[last.fig]

SetPlotDone == last.op = "set_plot" /\ last.outcome = "ok"
\* tight_text ran to its last line (where the redraw lookup may still fail).
TightTextDone == last.op = "tight_text" /\ last.outcome \in {"ok", "AttributeError"}

Target == Lit(325, 100)
Tenths8 == Lit(8, 10)
ClaimBuffer == Div(Lit(2, 1), Lit(72, 1))
\* The four fixed margins plus the buffer, as C9 names them.
C9_Left == Add(Lit(3, 10), ClaimBuffer)
C9_Right == Add(Lit(6, 100), ClaimBuffer)
C9_Bottom == Add(Lit(3, 10), ClaimBuffer)
C9_Top == Add(Lit(8, 100), ClaimBuffer)
Ratio(f) == Div(f.height, f.width)

\* C1 as stated: after set_plot on a figure with exactly one plot area the width
\* is 3.25 and height/width equals height/width before the call.
C1_RatioExact ==
    (SetPlotDone /\ Len(Before.axes) = 1) =>
        (After.width = Target /\ Ratio(After) = Ratio(Before))

\* C1 amended: the width is exactly 3.25, and height/width differs from its value
\* before the call by at most 2 units in the last place (floating-point rounding
\* of the two operations in between).
C1_RatioWithinRounding ==
    (SetPlotDone /\ Len(Before.axes) = 1) =>
        (After.width = Target /\ UlpDist(Ratio(After), Ratio(Before)) <= 2)

\* C1 witness: set_plot has resized a one-plot-area figure that was not at the
\* target width, and the ratio moved by rounding.
C1_Witness ==
    /\ SetPlotDone /\ Len(Before.axes) = 1
    /\ Before.width # Target
    /\ Ratio(After) # Ratio(Before)

\* C2 as stated: after set_plot, width*DPI and height*DPI equal their values
\* before the call, the new DPI being old_width/3.25 times the old DPI.
C2_FootprintExact ==
    SetPlotDone =>
        /\ Mul(After.width, After.dpi) = Mul(Before.width, Before.dpi)
        /\ Mul(After.height, After.dpi) = Mul(Before.height, Before.dpi)
        /\ After.dpi = Mul(Div(Before.width, Target), Before.dpi)

\* C2 amended: the new DPI is old_width/3.25 times the old DPI, and width*DPI and
\* height*DPI equal their values before the call up to floating-point rounding:
\* within 4 and 6 units in the last place.
C2_FootprintWithinRounding ==
    SetPlotDone =>
        /\ UlpDist(Mul(After.width, After.dpi), Mul(Before.width, Before.dpi)) <= 4
        /\ UlpDist(Mul(After.height, After.dpi), Mul(Before.height, Before.dpi)) <= 6
        /\ After.dpi = Mul(Div(Before.width, Target), Before.dpi)

\* C2 witness: set_plot has changed the DPI of a figure, and the pixel height
\* after the call is not the pixel height before it.
C2_Witness ==
    /\ SetPlotDone
    /\ After.dpi # Before.dpi
    /\ Mul(After.height, After.dpi) # Mul(Before.height, Before.dpi)

\* C3: on a figure with no plot area set_plot and tight_text fail with the
\* empty-figure error (ImportError) and leave the figure exactly as it was; and
\* they fail so only on such a figure.
C3_EmptyFigureUntouched ==
    /\ (last.fig # 0 /\ NoAxes(Before)) =>
            (last.outcome = "ImportError" /\ After = Before)
    /\ last.outcome = "ImportError" => (last.fig # 0 /\ NoAxes(Before))

\* C3 witness: a call has failed on an empty figure that carries text elements
\* not yet in the target font.
C3_Witness ==
    /\ last.outcome = "ImportError"
    /\ Len(Before.text) > 0
    /\ \E i \in DOMAIN Before.text : Before.text[i].size # 9

\* C4 as stated: on a figure with two or more plot areas tight_text fails with
\* SubplotsUnsupportedError and repositions no plot area.
C4_SubplotsRejected ==
    (last.op = "tight_text" /\ last.fig # 0 /\ Len(Before.axes) >= 2) =>
        /\ last.outcome = "SubplotsUnsupportedError"
        /\ \A i \in DOMAIN Before.axes : After.axes[i].position = Before.axes[i].position

\* The argument shapes C5 accepts.
Accepted(arg) ==
    \/ arg.tag \in {"none", "int", "figure", "axes", "artist"}
    \/ arg.tag = "list" /\ Len(arg.elems) = 1 /\ arg.elems[1] = "artist"

\* C5 as stated: resolution fails with the input error (ValueError) when the
\* argument is absent and there is no current figure and when the argument is
\* outside the accepted shapes; every accepted argument resolves to one figure,
\* the owner of the axes or artist given.
C5_Resolution ==
    last.op # "" =>
        /\ ~Accepted(last.arg) => last.outcome = "ValueError"
        /\ (last.arg.tag = "none" /\ last.cur = 0) => last.outcome = "ValueError"
        /\ (Accepted(last.arg) /\ ~(last.arg.tag = "none" /\ last.cur = 0)) =>
              /\ last.outcome # "ValueError"
              /\ last.fig \in DOMAIN figures
              /\ last.arg.tag = "none" => last.fig = last.cur
              /\ last.arg.tag \in {"figure", "axes", "artist", "list"} =>
                    last.fig = last.arg.fig
              /\ last.arg.tag = "int" => last.fig = last.arg.n

\* C6: a set_plot that follows a set_plot on the same figure leaves width, height
\* and DPI as the first one left them.
C6_Idempotent ==
    [][(/\ SetPlotDone
        /\ last'.op = "set_plot" /\ last'.outcome = "ok" /\ last'.fig = last.fig
        /\ calls' = calls + 1)
       => (/\ figures'[last.fig].width = figures[last.fig].width
           /\ figures'[last.fig].height = figures[last.fig].height
           /\ figures'[last.fig].dpi = figures[last.fig].dpi)]_vars

\* The figure has been through set_plot: only set_plot moves the ticks.
Processed(f) == \A i \in DOMAIN f.axes : f.axes[i].xticks = "bottom"

\* C6 witness: a second set_plot has run on a figure whose height was not a
\* multiple of the target's last place before the first one.
C6_Witness ==
    /\ SetPlotDone /\ calls = 2
    /\ Processed(Before) /\ Before.width = Target
    /\ Before.height # Lit(4, 1)

\* C7: after set_plot every text element of the figure has size 9 and family
\* Times New Roman.
C7_Fonts ==
    SetPlotDone =>
        \A i \in DOMAIN After.text :
            After.text[i].size = 9 /\ After.text[i].family = "Times New Roman"

\* C7 witness: set_plot has run on a figure with several text elements, none in
\* the target font before.
C7_Witness ==
    /\ SetPlotDone
    /\ Len(Before.text) >= 2
    /\ \A i \in DOMAIN Before.text :
          Before.text[i].size # 9 /\ Before.text[i].family # "Times New Roman"

\* C8: after set_plot, in every plot area the top and right spines are hidden and
\* the left and bottom spines have line width 0.8.
C8_Spines ==
    SetPlotDone =>
        \A i \in DOMAIN After.axes :
            /\ After.axes[i].spines.top.color = "none"
            /\ After.axes[i].spines.right.color = "none"
            /\ After.axes[i].spines.left.lw = Tenths8
            /\ After.axes[i].spines.bottom.lw = Tenths8

\* C8 witness: set_plot has run on a figure with several plot areas whose spines
\* were all visible at another width.
C8_Witness ==
    /\ SetPlotDone
    /\ Len(Before.axes) >= 2
    /\ \A i \in DOMAIN Before.axes :
          /\ Before.axes[i].spines.top.color # "none"
          /\ Before.axes[i].spines.left.lw # Tenths8

\* The position C9 names for a figure of width W and height H.
C9_Position(W, H) ==
    Bbox(Div(C9_Left, W), Div(C9_Bottom, H),
         Sub(One, Div(C9_Right, W)), Sub(One, Div(C9_Top, H)))

\* C9: when not interactive, tight_text measures no text element and sets the
\* first plot area's position from the fixed margins 0.3, 0.06, 0.3, 0.08 and the
\* figure's width and height alone.
C9_FixedMargins ==
    (TightTextDone /\ ~last.isint) =>
        /\ last.measured = {}
        /\ After.axes[1].position = C9_Position(Before.width, Before.height)

\* C9 witness: a non-interactive tight_text has moved a plot area of a figure
\* that has drawn, non-empty text elements.
C9_Witness ==
    /\ TightTextDone /\ ~last.isint
    /\ \E i \in DOMAIN Before.text : Measurable(Before.text[i])
    /\ After.axes[1].position # Before.axes[1].position

\* The non-empty text elements the renderer has drawn.
Labels(f) == {i \in DOMAIN f.text : f.text[i].text # "" /\ f.text[i].rendered}

\* The tightest box around the extents of text elements S of figure f.
TightBox(f, S) ==
    LET lo(g(_)) == CHOOSE v \in {g(i) : i \in S} : \A i \in S : ~Less(g(i), v)
        hi(g(_)) == CHOOSE v \in {g(i) : i \in S} : \A i \in S : ~Less(v, g(i))
        xmin(i) == f.text[i].bb.xmin
        xmax(i) == f.text[i].bb.xmax
        ymin(i) == f.text[i].bb.ymin
        ymax(i) == f.text[i].bb.ymax
    IN  [x_min |-> lo(xmin), x_max |-> hi(xmax), y_min |-> lo(ymin), y_max |-> hi(ymax)]

\* C10 as stated: when interactive, on a figure with one plot area, tight_text
\* measures the non-empty text elements and no others, and sets the plot area's
\* position from the margins between the tightest box around them and the plot
\* area's edges, plus the buffer 2/72, as fractions of the figure's size.
C10_TightestBox ==
    (TightTextDone /\ last.isint /\ Len(Before.axes) = 1) =>
        /\ last.measured = Labels(After)
        /\ Labels(After) # {} =>
              After.axes[1].position =
                  LET box == TightBox(After, Labels(After))
                      W   == Before.width
                      H   == Before.height
                      d   == Before.dpi
                      a   == Before.axes[1].position
                      buf == ClaimBuffer
                  IN  Bbox(Div(Add(Sub(Mul(a.xmin, W), Div(box.x_min, d)), buf), W),
                           Div(Add(Sub(Mul(a.ymin, H), Div(box.y_min, d)), buf), H),
                           Sub(One,
                               Div(Add(Sub(Div(box.x_max, d), Mul(a.xmax, W)), buf), W)),
                           Sub(One,
                               Div(Add(Sub(Div(box.y_max, d), Mul(a.ymax, H)), buf), H)))

====
